---- MODULE Spec2Model ----
(***************************************************************************)
(* Model of src/parking.py: the parking-space booking run                  *)
(* (lambda_handler) with its date selector, login, availability query,     *)
(* booking attempt and retry loop.                                         *)
(*                                                                         *)
(* Python values: an optional value is a sequence of length at most one    *)
(* (None is <<>>), a str is a TLA+ string, a dict is a function whose      *)
(* DOMAIN is its key set, a list is a sequence.  Wall-clock time is in     *)
(* whole seconds, the Lambda budget in milliseconds as in the source.      *)
(***************************************************************************)
EXTENDS Integers, Sequences, FiniteSets, TLC

----------------------------------------------------------------------------
(* Bounds of the model *)

\* proleptic Gregorian ordinal of the first day considered (Fri 2027-01-01)
FirstDay == 739982
\* days considered by the date-selector specification (covers a leap day)
NumDays == 430
\* days considered by the full-run specification
NumMainDays == 3
\* longest duration of one HTTP call, in seconds
MaxDur == 1
\* longest resource list in one availability response
MaxResources == 2
\* remaining-time budgets offered by the context: 0 .. MaxRemaining * 2500 ms
MaxRemaining == 4

----------------------------------------------------------------------------
(* Program constants *)

LOCATION_IDS == <<"19", "29">>

forbidden_spaces == [k \in {"68", "69"} |-> IF k = "68" THEN "2592" ELSE "2591"]

sleep_interval == 5

DefaultTimeoutMs == 60000

----------------------------------------------------------------------------
(* Python values *)

None == <<>>

Some(v) == <<v>>

\* truthiness taken for a test against None
IsNotNone(o) == o # None

\* truthiness of an optional str: neither None nor ""
Truthy(o) == o # None /\ o[1] # ""

\* forbidden_spaces.keys(), taken for the values
ForbiddenKeys == DOMAIN forbidden_spaces

\* forbidden_spaces.values()
ForbiddenValues == {forbidden_spaces[k] : k \in DOMAIN forbidden_spaces}

----------------------------------------------------------------------------
(* Dates: date.today(), date.weekday(), timedelta, strftime("%Y-%m-%d") *)

IsLeap(y) == (y % 4 = 0) /\ ((y % 100 # 0) \/ (y % 400 = 0))

DaysInMonth(y, m) ==
    IF m = 2 THEN (IF IsLeap(y) THEN 29 ELSE 28)
    ELSE IF m \in {4, 6, 9, 11} THEN 30 ELSE 31

DaysBeforeYear(y) ==
    LET p == y - 1 IN p * 365 + (p \div 4) - (p \div 100) + (p \div 400)

RECURSIVE DaysBeforeMonth(_, _)
DaysBeforeMonth(y, m) ==
    IF m = 1 THEN 0 ELSE DaysBeforeMonth(y, m - 1) + DaysInMonth(y, m - 1)

\* the calendar date <<year, month, day>> of a proleptic Gregorian ordinal
Ord2Ymd(n) ==
    LET e  == (((n - 1) * 400) \div 146097) + 1
        y  == CHOOSE k \in (e - 1)..(e + 1) :
                 DaysBeforeYear(k) < n /\ n <= DaysBeforeYear(k + 1)
        r  == n - DaysBeforeYear(y)
        m  == CHOOSE k \in 1..12 :
                 /\ DaysBeforeMonth(y, k) < r
                 /\ r <= DaysBeforeMonth(y, k) + DaysInMonth(y, k)
    IN  <<y, m, r - DaysBeforeMonth(y, m)>>

\* date.weekday(): Monday is 0, Sunday is 6
Weekday(n) == (n + 6) % 7

Pad2(k) == IF k < 10 THEN "0" \o ToString(k) ELSE ToString(k)

\* date.strftime("%Y-%m-%d")
Strftime(n) ==
    LET ymd == Ord2Ymd(n)
    IN  ToString(ymd[1]) \o "-" \o Pad2(ymd[2]) \o "-" \o Pad2(ymd[3])

\* get_target_date with Thursday taken for a +2 day
get_target_date_thu(override, day) ==
    IF Truthy(override) THEN override
    ELSE LET day_of_week == Weekday(day)
         IN  IF 0 <= day_of_week /\ day_of_week <= 3
                 THEN Some(Strftime(day + 2))
             ELSE IF day_of_week = 4
                 THEN Some(Strftime(day + 4))
             ELSE None

\* get_target_date testing the weekend before the override
get_target_date_weekend_first(override, day) ==
    LET day_of_week == Weekday(day)
    IN  IF day_of_week >= 5 THEN None
        ELSE IF Truthy(override) THEN override
        ELSE IF day_of_week <= 2 THEN Some(Strftime(day + 2))
        ELSE Some(Strftime(day + 4))

\* get_target_date adding 3 days on Thursday and Friday
get_target_date_plus3(override, day) ==
    IF Truthy(override) THEN override
    ELSE LET day_of_week == Weekday(day)
         IN  IF 0 <= day_of_week /\ day_of_week <= 2
                 THEN Some(Strftime(day + 2))
             ELSE IF 3 <= day_of_week /\ day_of_week <= 4
                 THEN Some(Strftime(day + 3))
             ELSE None

\* get_target_date with Saturday taken for a working day
get_target_date_sat(override, day) ==
    IF Truthy(override) THEN override
    ELSE LET day_of_week == Weekday(day)
         IN  IF 0 <= day_of_week /\ day_of_week <= 2
                 THEN Some(Strftime(day + 2))
             ELSE IF 3 <= day_of_week /\ day_of_week <= 5
                 THEN Some(Strftime(day + 4))
             ELSE None

\* get_target_date, as a function of BOOKING_DATE and date.today()
get_target_date(override, day) ==
    IF Truthy(override) THEN override
    ELSE LET day_of_week == Weekday(day)
         IN  IF 0 <= day_of_week /\ day_of_week <= 2
                 THEN Some(Strftime(day + 2))
             ELSE IF 3 <= day_of_week /\ day_of_week <= 4
                 THEN Some(Strftime(day + 4))
             ELSE None

----------------------------------------------------------------------------
(***************************************************************************)
(* HTTP responses and the functions that interpret them.  A response is a  *)
(* transport error (requests raises RequestException), a non-2xx status    *)
(* (raise_for_status raises HTTPError, a RequestException), a 2xx status   *)
(* with a body that is not JSON (response.json() raises JSONDecodeError, a *)
(* RequestException since requests 2.27) or a 2xx status with a JSON body. *)
(* JSON values carry their type as a tag, so that a dict, a list, a str,   *)
(* a number and null can be told apart as Python tells them apart.  An     *)
(* HTTP call takes one of Durations seconds.                               *)
(***************************************************************************)

Durations == 0..MaxDur

\* JSON values as response.json() returns them: a dict, a list, None, a str
\* or a number
Obj(f) == [obj |-> f]

Arr(s) == [arr |-> s]

Null == [null |-> TRUE]

Str(s) == [str |-> s]

Num(n) == [num |-> n]

\* the value has a .get method: it is a dict
IsObj(j) == "obj" \in DOMAIN j

IsArr(j) == "arr" \in DOMAIN j

\* bool(j) is False
Falsy(j) ==
    \/ "null" \in DOMAIN j
    \/ IsObj(j) /\ DOMAIN j.obj = {}
    \/ IsArr(j) /\ j.arr = <<>>
    \/ "str" \in DOMAIN j /\ j.str = ""
    \/ "num" \in DOMAIN j /\ j.num = 0

\* str(j) for the values an id takes
PyStr(j) ==
    IF "num" \in DOMAIN j THEN ToString(j.num)
    ELSE IF "str" \in DOMAIN j THEN j.str
    ELSE "None"

\* the resources the booking platform has at each location (JSON numbers);
\* 2591 and 2592 are the forbidden ones
ResourceIds(loc) == IF loc = "19" THEN {100, 101, 2592} ELSE {102, 2591}

Resource(loc) ==
    {Obj([id |-> Num(i), status |-> Str(st)]) :
        i \in ResourceIds(loc), st \in {"free", "occupied"}}

\* a resource list names a resource at most once
ResourceLists(loc) ==
    UNION {{rs \in [1..n -> Resource(loc)] :
              \A i, j \in 1..n : rs[i].obj.id = rs[j].obj.id => i = j} : n \in 0..MaxResources}

\* responses to POST /login
LoginResponses ==
    {[kind |-> "transport_error"],
     [kind |-> "http_error", body |-> [accessToken |-> "tok"]],
     [kind |-> "ok", body |-> [message |-> "denied"]],
     [kind |-> "ok", body |-> [accessToken |-> ""]],
     [kind |-> "ok", body |-> [accessToken |-> "tok"]]}

\* login without raise_for_status
login_any_status(resp) ==
    IF resp.kind = "transport_error" THEN None
    ELSE IF "accessToken" \in DOMAIN resp.body /\ resp.body.accessToken # ""
        THEN Some(resp.body.accessToken)
    ELSE None

\* login: the token, or None
login(resp) ==
    IF resp.kind # "ok" THEN None
    ELSE IF "accessToken" \in DOMAIN resp.body /\ resp.body.accessToken # ""
        THEN Some(resp.body.accessToken)
    ELSE None

\* responses to POST /api/2.0/search-resource, as far as location loc goes,
\* that keep to the API's contract: an error, or a map of maps
SearchResponses(loc) ==
    {[kind |-> "transport_error"],
     [kind |-> "http_error"],
     [kind |-> "ok", body |-> Obj([message |-> Str("none")])],
     [kind |-> "ok", body |-> Obj([locations |-> Obj(<<>>)])],
     [kind |-> "ok", body |-> Obj([locations |-> Obj(loc :> Obj(<<>>))])],
     [kind |-> "ok", body |-> Obj([locations |-> Obj(loc :> Obj([name |-> Str("site")]))])]}
    \cup {[kind |-> "ok",
           body |-> Obj([locations |-> Obj(loc :> Obj([resources |-> Arr(rs)]))])] :
             rs \in ResourceLists(loc)}

\* a resource of location loc
SomeId(loc) == IF loc = "19" THEN 100 ELSE 102

\* responses to the same request that break the contract: a body that is not
\* JSON, and JSON of the wrong shape
MalformedSearchResponses(loc) ==
    {[kind |-> "not_json"]}
    \cup {[kind |-> "ok", body |-> b] : b \in
           {Arr(<<>>),
            Null,
            Obj([locations |-> Arr(<<>>)]),
            Obj([locations |-> Null])}}
    \cup {[kind |-> "ok", body |-> Obj([locations |-> Obj(loc :> e)])] : e \in
           {Null,
            Arr(<<Num(1)>>),
            Str("closed"),
            Obj([resources |-> Null]),
            Obj([resources |-> Str("none")]),
            Obj([resources |-> Obj("100" :> Str("free"))]),
            Obj([resources |-> Arr(<<Num(7)>>)]),
            Obj([resources |-> Arr(<<Obj([status |-> Str("free")])>>)]),
            Obj([resources |-> Arr(<<Obj([id |-> Num(SomeId(loc))])>>)]),
            Obj([resources |-> Arr(<<Obj([id |-> Num(SomeId(loc)), status |-> Str("free")]),
                                     Obj([status |-> Str("free")])>>)])}}

\* line 97 from element i of the list on: the ids of the free resources, or
\* the exception the comprehension raises
RECURSIVE FreeSpaces(_, _)
FreeSpaces(items, i) ==
    IF i > Len(items) THEN [exc |-> "none", spaces |-> <<>>]
    ELSE LET r == items[i] IN
         IF ~IsObj(r) THEN [exc |-> "AttributeError", spaces |-> <<>>]
         ELSE IF "status" \in DOMAIN r.obj /\ r.obj.status = Str("free")
             THEN IF "id" \notin DOMAIN r.obj
                    THEN [exc |-> "KeyError", spaces |-> <<>>]
                    ELSE LET rest == FreeSpaces(items, i + 1)
                         IN  IF rest.exc # "none" THEN rest
                             ELSE [exc |-> "none",
                                   spaces |-> <<PyStr(r.obj.id)>> \o rest.spaces]
         ELSE FreeSpaces(items, i + 1)

\* lines 88-102 without the except clauses: the list returned, or the
\* exception raised
SearchBody(resp, location_id) ==
    IF resp.kind # "ok" THEN [exc |-> "RequestException", spaces |-> <<>>]
    ELSE LET data == resp.body IN
         IF ~IsObj(data) THEN [exc |-> "AttributeError", spaces |-> <<>>]
         ELSE LET locations == IF "locations" \in DOMAIN data.obj
                                 THEN data.obj.locations ELSE Obj(<<>>) IN
         IF ~IsObj(locations) THEN [exc |-> "AttributeError", spaces |-> <<>>]
         ELSE IF location_id \notin DOMAIN locations.obj
             THEN [exc |-> "none", spaces |-> <<>>]
         ELSE LET location_data == locations.obj[location_id] IN
         IF Falsy(location_data) THEN [exc |-> "none", spaces |-> <<>>]
         ELSE IF ~IsObj(location_data) THEN [exc |-> "AttributeError", spaces |-> <<>>]
         ELSE LET resources == IF "resources" \in DOMAIN location_data.obj
                                 THEN location_data.obj.resources ELSE Arr(<<>>) IN
         IF IsArr(resources) THEN FreeSpaces(resources.arr, 1)
         ELSE IF "null" \in DOMAIN resources \/ "num" \in DOMAIN resources
             THEN [exc |-> "TypeError", spaces |-> <<>>]
         ELSE IF Falsy(resources) THEN [exc |-> "none", spaces |-> <<>>]
         ELSE [exc |-> "AttributeError", spaces |-> <<>>]

\* get_available_spaces without the except clause of lines 103-105
get_available_spaces_uncaught(resp, location_id) ==
    LET r == SearchBody(resp, location_id)
    IN  IF r.exc \in {"KeyError", "TypeError"}
          THEN [exc |-> "none", spaces |-> <<>>]
          ELSE r

\* get_available_spaces: the ids of the free resources, as strings (exc is
\* "none"), or the exception that leaves the function
get_available_spaces(resp, location_id) ==
    LET r == SearchBody(resp, location_id)
    IN  IF r.exc \in {"RequestException", "KeyError", "TypeError"}
          THEN [exc |-> "none", spaces |-> <<>>]
          ELSE r

\* an API that never reports a free resource
NoFreeResponse ==
    [loc \in {"19", "29"} |->
        {r \in SearchResponses(loc) :
            get_available_spaces(r, loc) = [exc |-> "none", spaces |-> <<>>]}]

\* an API that may answer an availability query in any way its contract allows
AnyResponse == [loc \in {"19", "29"} |-> SearchResponses(loc)]

\* an API that may also break its contract
AnyJson ==
    [loc \in {"19", "29"} |-> SearchResponses(loc) \cup MalformedSearchResponses(loc)]

\* what went wrong with an availability query: "transport", "http",
\* "malformed" (not JSON, wrong shape, or no resource list for the location)
\* or "none"
SearchFault(resp, loc) ==
    IF resp.kind = "transport_error" THEN "transport"
    ELSE IF resp.kind = "http_error" THEN "http"
    ELSE IF \E rs \in ResourceLists(loc) :
               resp = [kind |-> "ok",
                       body |-> Obj([locations |-> Obj(loc :> Obj([resources |-> Arr(rs)]))])]
        THEN "none"
    ELSE "malformed"

\* responses to POST /api/2.0/create-event that keep to the contract
BookingResponses ==
    {[kind |-> "transport_error"],
     [kind |-> "http_error", body |-> Obj([result |-> Str("success")])],
     [kind |-> "ok", body |-> Obj([message |-> Str("taken")])],
     [kind |-> "ok", body |-> Obj([result |-> Str("error")])],
     [kind |-> "ok", body |-> Obj([result |-> Str("success")])]}

\* responses that break it: a body that is not JSON, and JSON of the wrong shape
MalformedBookingResponses ==
    {[kind |-> "not_json"],
     [kind |-> "ok", body |-> Arr(<<Str("success")>>)],
     [kind |-> "ok", body |-> Str("success")],
     [kind |-> "ok", body |-> Null],
     [kind |-> "ok", body |-> Obj([result |-> Null])],
     [kind |-> "ok", body |-> Obj([result |-> Obj([status |-> Str("success")])])]}

\* what went wrong with a booking call: "transport", "http", "malformed" or "none"
BookingFault(resp) ==
    IF resp.kind = "transport_error" THEN "transport"
    ELSE IF resp.kind = "http_error" THEN "http"
    ELSE IF resp \in MalformedBookingResponses THEN "malformed"
    ELSE "none"

\* attempt_booking without raise_for_status
attempt_booking_any_status(resp) ==
    /\ resp.kind \in {"ok", "http_error"}
    /\ IsObj(resp.body)
    /\ "result" \in DOMAIN resp.body.obj
    /\ resp.body.obj.result = Str("success")

\* attempt_booking comparing the result with the wrong word
attempt_booking_ok(resp) ==
    /\ resp.kind = "ok"
    /\ IsObj(resp.body)
    /\ "result" \in DOMAIN resp.body.obj
    /\ resp.body.obj.result = Str("ok")

\* attempt_booking returns True: a 2xx response whose result is "success"
attempt_booking(resp) ==
    /\ resp.kind = "ok"
    /\ IsObj(resp.body)
    /\ "result" \in DOMAIN resp.body.obj
    /\ resp.body.obj.result = Str("success")

\* attempt_booking raises: line 135 calls .get on a body that is not a dict,
\* and AttributeError is not among the exceptions of lines 143-148
attempt_booking_raises(resp) ==
    /\ resp.kind = "ok"
    /\ ~IsObj(resp.body)

----------------------------------------------------------------------------
(* State of one run of lambda_handler *)

VARIABLES
    MAIL_USER,      \* os.getenv("MAIL_USER")
    PLATE_NUMBER,   \* os.getenv("PLATE_NUMBER")
    BASE_URL,       \* os.getenv("BASE_URL")
    PASSWORD,       \* os.getenv("PASSWORD_PARKING")
    BOOKING_DATE,   \* os.getenv("BOOKING_DATE")
    context,        \* None, or Some(remaining time in ms)
    pc,             \* position in lambda_handler
    today,          \* the current date: what date.today() returns
    target_date,    \* optional str
    timeout_ms,
    start_time,
    now,            \* time.time(), in seconds
    login_resp,     \* the response login received, if login was called
    login_calls,    \* number of POST /login issued
    token,
    all_available,  \* dict location id -> list of space ids
    loc_idx,        \* position of the for loops over LOCATION_IDS
    sp_idx,         \* position of the for loop over all_available[loc_id]
    cycle_log,      \* the HTTP calls of the current iteration of the while loop
    cycles,         \* iterations of the while loop started
    sleeps,         \* time.sleep calls made
    last_call,      \* the last HTTP call of the cycle and what went wrong with it
    exception,      \* the exception that left lambda_handler, if one did
    result          \* the returned dict, once returned

vars == <<MAIL_USER, PLATE_NUMBER, BASE_URL, PASSWORD, BOOKING_DATE, context, pc,
          today, target_date, timeout_ms, start_time, now, login_resp,
          login_calls, token, all_available, loc_idx, sp_idx, cycle_log, cycles,
          sleeps, last_call, exception, result>>

config == <<MAIL_USER, PLATE_NUMBER, BASE_URL, PASSWORD, BOOKING_DATE, context>>

loop == <<all_available, loc_idx, sp_idx, cycle_log, cycles, sleeps, last_call>>

\* the days date.today() ranges over
MainDays == FirstDay .. (FirstDay + NumMainDays - 1)

AllDays == FirstDay .. (FirstDay + NumDays - 1)

RemainingTimes == {2500 * k : k \in 0..MaxRemaining}

\* contexts whose get_remaining_time_in_millis() returns one of RemainingTimes
LambdaContexts == {Some(r) : r \in RemainingTimes}

Response(code, text) == Some([statusCode |-> code, body |-> text])

N == Len(LOCATION_IDS)

\* no HTTP call made yet in the cycle
NoCall == [op |-> "none", fault |-> "none"]

\* the state when lambda_handler is entered on one of days with one of
\* contexts; MAIL_USER, PLATE_NUMBER and BASE_URL are set, or one of unset
InitOn(days, contexts, unset) ==
    /\ MAIL_USER \in {Some("user@example.com")} \cup unset
    /\ PLATE_NUMBER \in {Some("WX 12345")} \cup unset
    /\ BASE_URL \in {Some("https://parking.example.com")} \cup unset
    /\ PASSWORD \in {None, Some(""), Some("secret")}
    /\ BOOKING_DATE \in {None, Some(""), Some("2027-01-09")}
    /\ context \in contexts
    /\ pc = "start"
    /\ today \in days
    /\ target_date = None
    /\ timeout_ms = 0
    /\ start_time = 0
    /\ now = 0
    /\ login_resp = None
    /\ login_calls = 0
    /\ token = None
    /\ all_available = <<>>
    /\ loc_idx = 1
    /\ sp_idx = 1
    /\ cycle_log = <<>>
    /\ cycles = 0
    /\ sleeps = 0
    /\ last_call = NoCall
    /\ exception = None
    /\ result = None

\* invoked by Lambda, with a context and the whole configuration
Init == InitOn(MainDays, LambdaContexts, {})

\* lambda_handler without the return of line 153
CheckPasswordNoReturn ==
    /\ pc = "start"
    /\ pc' = "date"
    /\ UNCHANGED result
    /\ UNCHANGED <<config, today, target_date, timeout_ms, start_time, now,
                   login_resp, login_calls, token, loop, exception>>

\* lines 151-153
CheckPassword ==
    /\ pc = "start"
    /\ IF ~Truthy(PASSWORD)
          THEN /\ result' = Response(500, "Missing PASSWORD_PARKING env variable")
               /\ pc' = "done"
          ELSE /\ pc' = "date"
               /\ UNCHANGED result
    /\ UNCHANGED <<config, today, target_date, timeout_ms, start_time, now,
                   login_resp, login_calls, token, loop, exception>>

\* lines 155-165
SelectDate ==
    /\ pc = "date"
    /\ LET td == get_target_date(BOOKING_DATE, today)
       IN  /\ target_date' = td
           /\ IF ~Truthy(td)
                 THEN /\ result' = Response(200, "Script not intended to run on weekends.")
                      /\ pc' = "done"
                      /\ UNCHANGED <<timeout_ms, start_time>>
                 ELSE /\ timeout_ms' = IF context # None THEN context[1] ELSE DefaultTimeoutMs
                      /\ start_time' = now
                      /\ pc' = "login"
                      /\ UNCHANGED result
    /\ UNCHANGED <<config, today, now, login_resp, login_calls, token, loop, exception>>

\* line 181 and the state of the for loop that follows it
LoopTop ==
    /\ all_available' = <<>>
    /\ loc_idx' = 1
    /\ sp_idx' = 1
    /\ cycle_log' = <<>>
    /\ cycles' = cycles + 1
    /\ last_call' = NoCall

\* lines 173-178
\* a BASE_URL of None makes the URL of line 50 "None/login": session.post
\* raises MissingSchema, a RequestException, before anything is sent
Login ==
    /\ pc = "login"
    /\ IF ~Truthy(BASE_URL)
         THEN /\ token' = None
              /\ result' = Response(500, "Login failed")
              /\ pc' = "done"
              /\ UNCHANGED <<login_resp, login_calls, now, loop>>
         ELSE \E resp \in LoginResponses, d \in Durations :
                /\ login_resp' = Some(resp)
                /\ login_calls' = login_calls + 1
                /\ now' = now + d
                /\ token' = login(resp)
                /\ IF ~Truthy(login(resp))
                      THEN /\ result' = Response(500, "Login failed")
                           /\ pc' = "done"
                           /\ UNCHANGED loop
                      ELSE /\ pc' = "query"
                           /\ LoopTop
                           /\ UNCHANGED <<result, sleeps>>
    /\ UNCHANGED <<config, today, target_date, timeout_ms, start_time, exception>>

\* the first position of the nested for loops at or after (l, s)
RECURSIVE Seek(_, _, _)
Seek(avail, l, s) ==
    IF l > N THEN <<l, 1>>
    ELSE IF s <= Len(avail[LOCATION_IDS[l]]) THEN <<l, s>>
    ELSE Seek(avail, l + 1, 1)

\* the inner loop left after one failed attempt, as if by a break
NextCandidateBreak(avail, l, s) == Seek(avail, l + 1, 1)

\* the position the nested for loops of lines 186-187 take after (l, s)
NextCandidate(avail, l, s) == Seek(avail, l, s + 1)

\* the exception of function leaves lambda_handler
Raise(type, function) == Some([type |-> type, from |-> function])

\* the <<location, space>> pairs the availability query logged at entry i
\* of log reported free, in listed order
Reported(log, i) ==
    [j \in 1..Len(log[i].spaces) |-> <<log[i].loc, log[i].spaces[j]>>]

\* lines 186-188 on the lists the queries logged at entries i..N of log
\* returned: the spaces that are not forbidden, by location, in listed order
RECURSIVE Planned(_, _)
Planned(log, i) ==
    IF i > N THEN <<>>
    ELSE SelectSeq(Reported(log, i), LAMBDA p : p[2] \notin ForbiddenValues)
           \o Planned(log, i + 1)

\* cycle_log entry of an availability query: the location and the list returned
LogSearch(loc, spaces) ==
    [op |-> "search", loc |-> loc, spaces |-> spaces, space |-> "", ok |-> FALSE,
     success |-> FALSE, fallback |-> FALSE]

\* cycle_log entry of a booking attempt: the space, what attempt_booking
\* returned (ok), whether the API answered 2xx with result "success", and
\* whether the attempt is the one of lines 196-198
LogBook(loc, space, resp, fallback) ==
    [op |-> "book", loc |-> loc, spaces |-> <<>>, space |-> space,
     ok |-> attempt_booking(resp),
     success |-> (resp = [kind |-> "ok", body |-> Obj([result |-> Str("success")])]),
     fallback |-> fallback]

\* lines 182-185: one iteration of the first for loop, the API answering with
\* one of responses[loc_id]
Query(responses) ==
    /\ pc = "query"
    /\ \E resp \in responses[LOCATION_IDS[loc_idx]], d \in Durations :
         LET loc_id == LOCATION_IDS[loc_idx]
             r      == get_available_spaces(resp, loc_id)
             spaces == r.spaces
             avail  == (loc_id :> spaces) @@ all_available
             pos    == Seek(avail, 1, 1)
         IN  /\ now' = now + d
             /\ last_call' = [op |-> "search", fault |-> SearchFault(resp, loc_id)]
             /\ IF r.exc # "none"
                   THEN /\ exception' = Raise(r.exc, "get_available_spaces")
                        /\ pc' = "crashed"
                        /\ UNCHANGED <<all_available, cycle_log, loc_idx, sp_idx>>
                   ELSE /\ all_available' = avail
                        /\ cycle_log' = Append(cycle_log, LogSearch(loc_id, spaces))
                        /\ UNCHANGED exception
                        /\ IF loc_idx < N
                              THEN /\ loc_idx' = loc_idx + 1
                                   /\ UNCHANGED <<pc, sp_idx>>
                              ELSE /\ loc_idx' = pos[1]
                                   /\ sp_idx' = pos[2]
                                   /\ pc' = IF pos[1] > N THEN "forbidden" ELSE "book"
    /\ UNCHANGED <<config, today, target_date, timeout_ms, start_time,
                   login_resp, login_calls, token, cycles, sleeps, result>>

\* lines 186-191: one iteration of the inner for loop
Book(responses) ==
    /\ pc = "book"
    /\ LET loc_id   == LOCATION_IDS[loc_idx]
           space_id == all_available[loc_id][sp_idx]
           pos      == NextCandidate(all_available, loc_idx, sp_idx)
           advance  == /\ loc_idx' = pos[1]
                       /\ sp_idx' = pos[2]
                       /\ pc' = IF pos[1] > N THEN "forbidden" ELSE "book"
                       /\ UNCHANGED <<result, exception>>
       IN  IF space_id \notin ForbiddenValues
             THEN \E resp \in responses, d \in Durations :
                    /\ now' = now + d
                    /\ last_call' = [op |-> "book", fault |-> BookingFault(resp)]
                    /\ IF attempt_booking_raises(resp)
                          THEN /\ exception' = Raise("AttributeError", "attempt_booking")
                               /\ pc' = "crashed"
                               /\ UNCHANGED <<cycle_log, loc_idx, sp_idx, result>>
                          ELSE /\ cycle_log' = Append(cycle_log,
                                      LogBook(loc_id, space_id, resp, FALSE))
                               /\ IF attempt_booking(resp)
                                     THEN /\ result' = Response(200,
                                                 "Booked space " \o space_id
                                                    \o " at location " \o loc_id)
                                          /\ pc' = "done"
                                          /\ UNCHANGED <<loc_idx, sp_idx, exception>>
                                     ELSE advance
             ELSE /\ advance
                  /\ UNCHANGED <<now, cycle_log, last_call>>
    /\ UNCHANGED <<config, today, target_date, timeout_ms, start_time,
                   login_resp, login_calls, token, all_available, cycles, sleeps>>

\* lines 193-195: the free spaces that are forbidden, in location order
RECURSIVE ForbiddenCandidates(_, _)
ForbiddenCandidates(avail, l) ==
    IF l > N THEN <<>>
    ELSE SelectSeq(avail[LOCATION_IDS[l]], LAMBDA sid : sid \in ForbiddenValues)
           \o ForbiddenCandidates(avail, l + 1)

\* the list of lines 193-195 built from the first location only
forbidden_candidates_first_location(avail) ==
    SelectSeq(avail[LOCATION_IDS[1]], LAMBDA sid : sid \in ForbiddenValues)

\* lines 193-195: forbidden_candidates
forbidden_candidates(avail) == ForbiddenCandidates(avail, 1)

\* lines 193-200
BookForbidden(responses) ==
    /\ pc = "forbidden"
    /\ LET candidates == forbidden_candidates(all_available)
       IN  IF candidates # <<>>
             THEN \E i \in 1..Len(candidates),
                     resp \in responses, d \in Durations :
                    LET space_id == candidates[i] IN
                    /\ now' = now + d
                    /\ last_call' = [op |-> "book", fault |-> BookingFault(resp)]
                    /\ IF attempt_booking_raises(resp)
                          THEN /\ exception' = Raise("AttributeError", "attempt_booking")
                               /\ pc' = "crashed"
                               /\ UNCHANGED <<cycle_log, result>>
                          ELSE /\ cycle_log' = Append(cycle_log,
                                      LogBook("", space_id, resp, TRUE))
                               /\ UNCHANGED exception
                               /\ IF attempt_booking(resp)
                                     THEN /\ result' = Response(200,
                                                 "Booked forbidden space " \o space_id)
                                          /\ pc' = "done"
                                     ELSE /\ pc' = "check"
                                          /\ UNCHANGED result
             ELSE /\ pc' = "check"
                  /\ UNCHANGED <<now, cycle_log, last_call, result, exception>>
    /\ UNCHANGED <<config, today, target_date, timeout_ms, start_time,
                   login_resp, login_calls, token, all_available, loc_idx, sp_idx,
                   cycles, sleeps>>

\* the budget test with the interval subtracted from elapsed
ExhaustedMinusInterval(elapsed) == (elapsed - sleep_interval) * 1000 > timeout_ms

\* the budget test with >= for >
ExhaustedAtLeast(elapsed) == (elapsed + sleep_interval) * 1000 >= timeout_ms

\* the budget test without the sleep interval
ExhaustedNoInterval(elapsed) == elapsed * 1000 > timeout_ms

\* line 204: the budget test, on elapsed seconds
Exhausted(elapsed) == (elapsed + sleep_interval) * 1000 > timeout_ms

\* lines 202-209, and line 181 when the loop goes round
EndOfCycle ==
    /\ pc = "check"
    /\ LET elapsed == now - start_time
       IN  IF Exhausted(elapsed)
             THEN /\ result' = Response(404, "No available spaces could be booked after retries.")
                  /\ pc' = "done"
                  /\ UNCHANGED <<now, loop>>
             ELSE /\ now' = now + sleep_interval
                  /\ sleeps' = sleeps + 1
                  /\ LoopTop
                  /\ pc' = "query"
                  /\ UNCHANGED result
    /\ UNCHANGED <<config, today, target_date, timeout_ms, start_time,
                   login_resp, login_calls, token, exception>>

Next ==
    \/ CheckPassword
    \/ SelectDate
    \/ Login
    \/ Query(AnyResponse)
    \/ Book(BookingResponses)
    \/ BookForbidden(BookingResponses)
    \/ EndOfCycle

Spec == Init /\ [][Next]_vars

\* every HTTP call returns and time.sleep returns: the run keeps going
SpecFair == Spec /\ WF_vars(Next)

\* the date selector alone, over a long range of days
InitDate == InitOn(AllDays, LambdaContexts \cup {None}, {})

NextDate == CheckPassword \/ SelectDate

SpecDate == InitDate /\ [][NextDate]_vars

\* the run against an API that never reports a free resource
NextEmpty ==
    \/ CheckPassword
    \/ SelectDate
    \/ Login
    \/ Query(NoFreeResponse)
    \/ BookForbidden(BookingResponses)
    \/ EndOfCycle

\* invoked by Lambda or as a script, without a context
InitEmpty == InitOn(MainDays, LambdaContexts \cup {None}, {})

SpecEmpty == InitEmpty /\ [][NextEmpty]_vars

\* the run against an API that may break its contract
NextMalformed ==
    \/ CheckPassword
    \/ SelectDate
    \/ Login
    \/ Query(AnyJson)
    \/ Book(BookingResponses \cup MalformedBookingResponses)
    \/ BookForbidden(BookingResponses \cup MalformedBookingResponses)
    \/ EndOfCycle

\* a budget that allows two cycles
InitMalformed == InitOn(MainDays, {Some(2500 * MaxRemaining)}, {})

SpecMalformed == InitMalformed /\ [][NextMalformed]_vars

\* the run with any of MAIL_USER, PLATE_NUMBER and BASE_URL unset
InitConfig == InitOn(MainDays, {Some(0)}, {None})

SpecConfig == InitConfig /\ [][Next]_vars

----------------------------------------------------------------------------
(* Properties *)

\* C1: within a poll cycle, a booking attempt on a deprioritized resource
\* ("2591" or "2592") comes only after every configured location has been
\* queried and every non-deprioritized resource those queries reported free
\* has been attempted and has failed.
C1_DeprioritizedLast ==
    \A i \in 1..Len(cycle_log) :
        (cycle_log[i].op = "book" /\ cycle_log[i].space \in {"2591", "2592"}) =>
            /\ \A l \in 1..Len(LOCATION_IDS) :
                  \E j \in 1..(i - 1) :
                      cycle_log[j].op = "search" /\ cycle_log[j].loc = LOCATION_IDS[l]
            /\ \A j \in 1..Len(cycle_log) :
                  cycle_log[j].op = "search" =>
                      \A k \in 1..Len(cycle_log[j].spaces) :
                          cycle_log[j].spaces[k] \notin {"2591", "2592"} =>
                              \E m \in 1..(i - 1) :
                                  /\ cycle_log[m].op = "book"
                                  /\ cycle_log[m].space = cycle_log[j].spaces[k]
                                  /\ cycle_log[m].loc = cycle_log[j].loc
                                  /\ ~cycle_log[m].success
                                  /\ ~cycle_log[m].ok

\* a cycle in which two non-deprioritized resources at different locations
\* failed and a deprioritized one was then attempted
C1_Witness ==
    \E i, m, n \in 1..Len(cycle_log) :
        /\ m < n /\ n < i
        /\ cycle_log[i].op = "book" /\ cycle_log[i].space \in {"2591", "2592"}
        /\ cycle_log[m].op = "book" /\ cycle_log[m].loc = "19"
        /\ cycle_log[n].op = "book" /\ cycle_log[n].loc = "29"

\* C2: a booking attempt that reports success ends the run at once with
\* status 200 and a body naming the booked resource (and its location, for a
\* non-deprioritized resource, the location being one whose query listed it);
\* nothing happens after the run has ended, and a cycle has at most one
\* successful attempt.  Resource "100" listed at "19" gives
\* "Booked space 100 at location 19".
C2_SuccessEndsRun ==
    [][ /\ (/\ Len(cycle_log') = Len(cycle_log) + 1
            /\ cycle_log'[Len(cycle_log')].op = "book"
            /\ cycle_log'[Len(cycle_log')].success)
           => LET e == cycle_log'[Len(cycle_log')] IN
              /\ pc' = "done"
              /\ result' # None
              /\ result'[1].statusCode = 200
              /\ IF e.space \in {"2591", "2592"}
                    THEN result'[1].body = "Booked forbidden space " \o e.space
                    ELSE /\ result'[1].body =
                               "Booked space " \o e.space \o " at location " \o e.loc
                         /\ \E j \in 1..Len(cycle_log) :
                               /\ cycle_log[j].op = "search"
                               /\ cycle_log[j].loc = e.loc
                               /\ \E k \in 1..Len(cycle_log[j].spaces) :
                                     cycle_log[j].spaces[k] = e.space
              /\ (e.space = "100" /\ \E j \in 1..Len(cycle_log) :
                                       /\ cycle_log[j].op = "search"
                                       /\ cycle_log[j].loc = "19"
                                       /\ cycle_log[j].spaces # <<>>
                                       /\ cycle_log[j].spaces[1] = "100")
                    => result'[1].body = "Booked space 100 at location 19"
        /\ pc = "done" => UNCHANGED vars
        /\ Cardinality({i \in 1..Len(cycle_log') : cycle_log'[i].success}) <= 1
      ]_vars

\* the run ended by booking "100" at "19" in its second cycle
C2_Witness ==
    /\ pc = "done"
    /\ result = Response(200, "Booked space 100 at location 19")
    /\ cycles = 2
    /\ cycle_log[Len(cycle_log)].success

\* C3: at the end of an unsuccessful cycle the run ends with 404 without
\* sleeping if elapsed + 5 s exceeds the budget, and otherwise sleeps 5 s and
\* polls again; no sleep starts anywhere else.
C3_NoSleepPastBudget ==
    [][ /\ pc = "check" =>
              IF (now - start_time + 5) * 1000 > timeout_ms
                THEN /\ pc' = "done"
                     /\ result' # None /\ result'[1].statusCode = 404
                     /\ sleeps' = sleeps /\ now' = now /\ cycles' = cycles
                ELSE /\ pc' = "query"
                     /\ sleeps' = sleeps + 1 /\ now' = now + 5
                     /\ cycles' = cycles + 1 /\ result' = None
        /\ sleeps' # sleeps =>
              pc = "check" /\ (now - start_time + 5) * 1000 <= timeout_ms
      ]_vars

\* a run that slept at least once and then ended exhausted
C3_Witness ==
    /\ pc = "done"
    /\ result # None /\ result[1].statusCode = 404
    /\ sleeps >= 1

\* C4 as claimed: against an API that never reports a free resource the run
\* ends with 404 after floor(budget / 5 s) poll cycles, give or take one.
C4_CyclesWithinOne ==
    (pc = "done" /\ Truthy(token)) =>
        /\ result[1].statusCode = 404
        /\ cycles >= (timeout_ms \div 5000) - 1
        /\ cycles <= (timeout_ms \div 5000) + 1

\* C4 amended: against an API that never reports a free resource the run
\* ends with 404 after at least one and at most floor(budget / 5 s) + 1 poll
\* cycles, and after exactly floor(budget / 5 s) + 1 cycles when the HTTP
\* calls take no time (all elapsed time is sleep).
C4_CyclesAtMost ==
    (pc = "done" /\ Truthy(token)) =>
        /\ result[1].statusCode = 404
        /\ cycles >= 1
        /\ cycles <= (timeout_ms \div 5000) + 1
        /\ (now - start_time = 5 * sleeps) => cycles = (timeout_ms \div 5000) + 1

\* the default 60 s budget exhausted after fewer than 11 cycles
C4_Witness ==
    /\ pc = "done"
    /\ result # None /\ result[1].statusCode = 404
    /\ context = None /\ timeout_ms = 60000
    /\ cycles < 11

\* C5 as claimed: no availability query and no booking attempt starts once
\* the elapsed time has exceeded the budget.
C5_NoCallPastBudget ==
    [][ Len(cycle_log') = Len(cycle_log) + 1 =>
            (now - start_time) * 1000 <= timeout_ms ]_vars

\* C6: a run that got past login ends; once ended nothing changes; and it
\* ends either by the one successful booking attempt (200) or at the end of
\* an unsuccessful cycle with elapsed + 5 s > budget (404), never both.
C6_TerminatesOnce ==
    /\ Truthy(token) ~> (pc = "done")
    /\ [][pc = "done" => UNCHANGED vars]_vars
    /\ [](  (pc = "done" /\ Truthy(token)) =>
             LET booked == {i \in 1..Len(cycle_log) :
                               cycle_log[i].op = "book" /\ cycle_log[i].success}
                 over   == (now - start_time + 5) * 1000 > timeout_ms
             IN  \/ /\ result[1].statusCode = 200
                    /\ booked = {Len(cycle_log)}
                 \/ /\ result[1].statusCode = 404
                    /\ booked = {}
                    /\ over
                    /\ \A l \in 1..Len(LOCATION_IDS) :
                          \E j \in 1..Len(cycle_log) :
                              cycle_log[j].op = "search"
                                 /\ cycle_log[j].loc = LOCATION_IDS[l] )

\* a run ended exhausted after three cycles, another ended by a booking
C6_Witness ==
    /\ pc = "done" /\ Truthy(token)
    /\ result[1].statusCode = 404
    /\ cycles = 3
    /\ \E i \in 1..Len(cycle_log) : cycle_log[i].op = "book"

C8_StatusMatchesOutcome ==
    pc = "done" =>
        LET code     == result[1].statusCode
            secret   == PASSWORD # None /\ PASSWORD # Some("")
            override == BOOKING_DATE # None /\ BOOKING_DATE # Some("")
            weekend  == secret /\ ~override /\ ((today + 6) % 7) \in {5, 6}
            loginOk  == /\ login_resp # None
                        /\ login_resp[1].kind = "ok"
                        /\ "accessToken" \in DOMAIN login_resp[1].body
                        /\ login_resp[1].body.accessToken # ""
            booked   == /\ cycle_log # <<>>
                        /\ cycle_log[Len(cycle_log)].op = "book"
                        /\ cycle_log[Len(cycle_log)].success
            exhausted == /\ loginOk /\ ~booked
                         /\ (now - start_time + 5) * 1000 > timeout_ms
        IN  /\ code \in {200, 404, 500}
            /\ code = 200 <=> (booked \/ weekend)
            /\ code = 404 <=> exhausted
            /\ code = 500 <=> (~secret \/ (login_resp # None /\ ~loginOk))

\* runs ended with each of the three codes exist; this one is the weekend
C8_Witness ==
    /\ pc = "done"
    /\ result = Response(200, "Script not intended to run on weekends.")
    /\ login_calls = 0

\* C9: with no override in effect, the target date is the current date + 2
\* days on Monday to Wednesday, + 4 days on Thursday and Friday, and None on
\* Saturday and Sunday.
C9_TargetDateRule ==
    (pc \notin {"start", "date"} /\ PASSWORD = Some("secret")
        /\ BOOKING_DATE \in {None, Some("")}) =>
        LET weekday == (today + 6) % 7
        IN  /\ weekday \in {0, 1, 2} => target_date = Some(Strftime(today + 2))
            /\ weekday \in {3, 4} => target_date = Some(Strftime(today + 4))
            /\ weekday \in {5, 6} => target_date = None /\ pc = "done"

\* Monday 2028-02-28: the target is Wednesday 2028-03-01, past the leap day
C9_Witness ==
    /\ pc = "login"
    /\ BOOKING_DATE = None
    /\ Strftime(today) = "2028-02-28"
    /\ target_date = Some("2028-03-01")

\* C10: with an override set (BOOKING_DATE a non-empty string) the target
\* date is the override on every weekday, Saturday and Sunday included: the
\* run does not end as a weekend no-action, logs in, and polls with the
\* override once logged in.
C10_OverrideWins ==
    (pc \notin {"start", "date"} /\ PASSWORD = Some("secret")
        /\ BOOKING_DATE # None /\ BOOKING_DATE # Some("")) =>
        /\ target_date = BOOKING_DATE
        /\ pc # "login" => login_calls = 1
        /\ pc = "done" => result[1].body # "Script not intended to run on weekends."
        /\ Truthy(token) => cycles >= 1

\* a Saturday run with an override that booked a space
C10_Witness ==
    /\ (today + 6) % 7 = 5
    /\ BOOKING_DATE = Some("2027-01-09")
    /\ target_date = Some("2027-01-09")
    /\ pc = "done"
    /\ result # None /\ result[1].statusCode = 200
    /\ cycles >= 1

\* C11: when the secret is missing (PASSWORD_PARKING unset or empty) the run
\* ends with status 500 before any network call, on every weekday and with or
\* without an override: no login, no availability query and no booking
\* attempt is issued.
C11_MissingSecretAborts ==
    ~Truthy(PASSWORD) =>
        /\ pc \in {"start", "done"}
        /\ login_calls = 0 /\ login_resp = None
        /\ cycles = 0 /\ cycle_log = <<>> /\ last_call = NoCall
        /\ now = 0
        /\ pc = "done" =>
              result = Response(500, "Missing PASSWORD_PARKING env variable")

\* a Friday run with an override and no secret that has returned
C11_Witness ==
    /\ PASSWORD = None
    /\ Weekday(today) = 4
    /\ BOOKING_DATE = Some("2027-01-09")
    /\ pc = "done"
    /\ result = Response(500, "Missing PASSWORD_PARKING env variable")

\* C12: identity (MAIL_USER), secret (PASSWORD_PARKING), base URL (BASE_URL)
\* and plate identifier (PLATE_NUMBER) are each required: a run in which any
\* one of them is absent issues no network call (no login, no availability
\* query, no booking attempt) and, on a working day, ends with status 500.
C12_AllRequired ==
    (MAIL_USER = None \/ PLATE_NUMBER = None \/ BASE_URL = None
        \/ ~Truthy(PASSWORD)) =>
        /\ login_calls = 0
        /\ cycles = 0 /\ cycle_log = <<>>
        /\ (pc = "done" /\ Weekday(today) <= 4) => result[1].statusCode = 500

\* C13: for every response to the availability query in which the location
\* data is missing or malformed, get_available_spaces returns the empty list
\* without raising, and the run continues: no exception of
\* get_available_spaces leaves lambda_handler, and the query is logged with
\* no free spaces.
C13_MalformedIsEmpty ==
    /\ exception = None \/ exception[1].from # "get_available_spaces"
    /\ last_call = [op |-> "search", fault |-> "malformed"] =>
         /\ pc # "crashed"
         /\ cycle_log # <<>>
         /\ cycle_log[Len(cycle_log)].op = "search"
         /\ cycle_log[Len(cycle_log)].spaces = <<>>

\* C14: a booking attempt is reported as successful if and only if the
\* response is a 2xx one whose result field equals "success"; on every other
\* response, an unparsable or wrongly shaped body included, attempt_booking
\* returns False without raising and the caller goes on.
C14_SuccessIffResult ==
    /\ \A i \in 1..Len(cycle_log) :
         cycle_log[i].op = "book" => (cycle_log[i].ok <=> cycle_log[i].success)
    /\ exception = None \/ exception[1].from # "attempt_booking"
    /\ (last_call.op = "book" /\ last_call.fault # "none") =>
         /\ pc # "crashed"
         /\ cycle_log[Len(cycle_log)].op = "book"
         /\ ~cycle_log[Len(cycle_log)].ok

\* C15: after a successful login a transport failure of an availability
\* query or of a booking call never aborts the run: no exception leaves
\* lambda_handler, the failed query counts as no free resources, the failed
\* booking counts as a failed attempt, and a run that logged in ends with 200
\* or 404 only, never with 500.
C15_TransportFailureRecovered ==
    /\ exception = None /\ pc # "crashed"
    /\ last_call = [op |-> "search", fault |-> "transport"] =>
         /\ cycle_log[Len(cycle_log)].op = "search"
         /\ cycle_log[Len(cycle_log)].spaces = <<>>
    /\ last_call = [op |-> "book", fault |-> "transport"] =>
         /\ cycle_log[Len(cycle_log)].op = "book"
         /\ ~cycle_log[Len(cycle_log)].ok
         /\ pc = "done" => result[1].statusCode = 404
    /\ (Truthy(token) /\ pc = "done") => result[1].statusCode \in {200, 404}

\* the booking call for a space of location 19 failed at transport level and
\* the run is about to try the next candidate
C15_Witness ==
    /\ Truthy(token)
    /\ last_call = [op |-> "book", fault |-> "transport"]
    /\ pc = "book"
    /\ loc_idx = 2
    /\ cycle_log[Len(cycle_log)].loc = "19"
    /\ ~cycle_log[Len(cycle_log)].ok

\* C16: in every poll cycle the availability of every configured location
\* is queried, in configured order, before any booking attempt of the cycle;
\* the attempts on spaces that are not forbidden then follow the configured
\* location order and, within a location, the order the API listed them in,
\* each being attempted until one succeeds; every space attempted was
\* reported free by a query of the same cycle.
C16_CycleOrder ==
    LET L     == Len(cycle_log)
        books == SelectSeq(cycle_log,
                           LAMBDA e : e.op = "book" /\ ~e.fallback)
        plan  == Planned(cycle_log, 1)
    IN  /\ \A i \in 1..L :
             IF i <= N
               THEN cycle_log[i].op = "search" /\ cycle_log[i].loc = LOCATION_IDS[i]
               ELSE cycle_log[i].op = "book"
        /\ pc = "query" => L = loc_idx - 1 /\ L < N
        /\ pc \in {"book", "forbidden", "check"} => L >= N
        /\ L >= N =>
             /\ Len(books) <= Len(plan)
             /\ \A j \in 1..Len(books) :
                  /\ books[j].loc = plan[j][1]
                  /\ books[j].space = plan[j][2]
                  /\ books[j].ok => (j = Len(books) /\ L = N + j /\ pc = "done")
             /\ (pc \in {"forbidden", "check"} \/ cycle_log[L].fallback
                   \/ (pc = "done" /\ result[1].statusCode = 404)) =>
                  Len(books) = Len(plan)
             /\ (pc = "book" /\ Len(books) < Len(plan)) =>
                  all_available[LOCATION_IDS[loc_idx]][sp_idx]
                      \in {plan[Len(books) + 1][2]} \cup ForbiddenValues
             /\ \A i \in (N + 1)..L :
                  \E k \in 1..N : \E j \in 1..Len(cycle_log[k].spaces) :
                      cycle_log[i].space = cycle_log[k].spaces[j]

\* a second cycle in which both spaces of location 19 failed, in listed
\* order, and the space of location 29 was then booked
C16_Witness ==
    /\ cycles = 2
    /\ pc = "done"
    /\ Len(cycle_log) = 5
    /\ cycle_log[1].spaces = <<"101", "100">>
    /\ cycle_log[3].space = "101" /\ ~cycle_log[3].ok
    /\ cycle_log[4].space = "100" /\ ~cycle_log[4].ok
    /\ cycle_log[5].space = "102" /\ cycle_log[5].ok

\* C17: in a poll cycle in which no attempt on a space that is not forbidden
\* succeeded, exactly one attempt on a forbidden space is made if the cycle's
\* queries reported at least one forbidden space free, and its target is one
\* of those; none is made if no forbidden space was reported free.  No cycle
\* has more than one attempt on a forbidden space.
C17_OneDeprioritizedAttempt ==
    LET L    == Len(cycle_log)
        dep  == {i \in 1..L : /\ cycle_log[i].op = "book"
                              /\ \/ cycle_log[i].fallback
                                 \/ cycle_log[i].space \in ForbiddenValues}
        free == {sid \in ForbiddenValues :
                   \E k \in 1..L : /\ cycle_log[k].op = "search"
                                   /\ \E j \in 1..Len(cycle_log[k].spaces) :
                                        cycle_log[k].spaces[j] = sid}
    IN  /\ Cardinality(dep) <= 1
        /\ \A i \in dep :
             /\ i = L
             /\ cycle_log[i].fallback
             /\ cycle_log[i].space \in free
             /\ \A k \in 1..(i - 1) : ~cycle_log[k].ok
        /\ (pc = "check" \/ (pc = "done" /\ result[1].statusCode = 404)) =>
             (Cardinality(dep) = 1 <=> free # {})
        /\ pc \in {"query", "book", "forbidden"} => dep = {}

\* both forbidden spaces were reported free, 2592 at location 19 and 2591 at
\* location 29, and the one attempted is 2591, the second of the candidates
C17_Witness ==
    /\ pc = "check"
    /\ Len(cycle_log) = 3
    /\ cycle_log[1].spaces = <<"2592">>
    /\ cycle_log[2].spaces = <<"2591">>
    /\ cycle_log[3].fallback
    /\ cycle_log[3].space = "2591"

\* C18: on a Saturday or Sunday, with no override (BOOKING_DATE unset or
\* empty) and the secret configured, the run returns status 200 (no action)
\* without logging in and without any availability query or booking attempt.
C18_WeekendNoAction ==
    (Truthy(PASSWORD) /\ ~Truthy(BOOKING_DATE) /\ Weekday(today) \in {5, 6}) =>
        /\ pc \in {"start", "date", "done"}
        /\ login_calls = 0 /\ login_resp = None /\ token = None
        /\ cycles = 0 /\ cycle_log = <<>> /\ last_call = NoCall
        /\ now = 0
        /\ pc = "done" =>
              result = Response(200, "Script not intended to run on weekends.")

\* a Sunday run without override that has returned
C18_Witness ==
    /\ PASSWORD = Some("secret")
    /\ BOOKING_DATE = None
    /\ Weekday(today) = 6
    /\ pc = "done"
    /\ result # None /\ result[1].statusCode = 200
    /\ login_calls = 0

\* C19: after a successful login at least one full poll cycle (a query at
\* every location and the booking attempts that follow from it) is performed,
\* the budget being tested only at the end of a cycle; with a budget of zero
\* or one smaller than the sleep interval exactly one cycle runs, and a run
\* that booked nothing ends with 404 without ever sleeping.
C19_AtLeastOneCycle ==
    LET L     == Len(cycle_log)
        books == SelectSeq(cycle_log,
                           LAMBDA e : e.op = "book" /\ ~e.fallback)
    IN  /\ Truthy(token) => (cycles >= 1 /\ sleeps = cycles - 1)
        /\ (Truthy(token) /\ pc = "done") =>
             /\ L >= N
             /\ \A i \in 1..N : cycle_log[i].op = "search"
             /\ IF cycle_log[L].ok
                   THEN result[1].statusCode = 200
                   ELSE /\ result[1].statusCode = 404
                        /\ Len(books) = Len(Planned(cycle_log, 1))
        /\ (Truthy(token) /\ timeout_ms < sleep_interval * 1000) =>
             /\ cycles = 1
             /\ sleeps = 0

\* a budget of zero: one cycle with a failed attempt, then 404 with no sleep
C19_Witness ==
    /\ timeout_ms = 0
    /\ Truthy(token)
    /\ pc = "done"
    /\ result = Response(404, "No available spaces could be booked after retries.")
    /\ cycles = 1 /\ sleeps = 0
    /\ Len(cycle_log) = 3
    /\ cycle_log[3].op = "book" /\ ~cycle_log[3].ok

\* C20: with no override, every target date get_target_date computes is a
\* working day strictly after the current date: on each of Monday to Friday a
\* date is computed, and it falls on Monday to Friday of the following days,
\* never on a Saturday or Sunday.
C20_TargetIsFutureWorkday ==
    (~Truthy(BOOKING_DATE) /\ pc \notin {"start", "date"} /\ Truthy(PASSWORD)) =>
        /\ Weekday(today) <= 4 => target_date # None
        /\ target_date # None =>
              \E k \in 1..7 : /\ target_date = Some(Strftime(today + k))
                              /\ Weekday(today + k) <= 4

\* Friday 2027-12-31: the target is Tuesday 2028-01-04, in the next year
C20_Witness ==
    /\ BOOKING_DATE = None
    /\ pc = "login"
    /\ Weekday(today) = 4
    /\ Strftime(today) = "2027-12-31"
    /\ target_date = Some("2028-01-04")

====
